---- MODULE Spec2Model ----
(***************************************************************************)
(* Runtime type guards of @python-portal/types (src/src/index.ts).         *)
(*                                                                         *)
(* A caller builds an untyped JavaScript value and hands it to the guards  *)
(* isExercise, isTestResult, isAPIResponse and isCodeExecutionResult.      *)
(* Each guard is a chain of && operands: typeof, !== null, `in`, typeof of *)
(* a property read and Array.isArray of a property read.  The operands are *)
(* evaluated left to right and the chain stops at the first operand that   *)
(* is not true; an operand that throws ends the call with the exception.   *)
(***************************************************************************)
EXTENDS Naturals, FiniteSets, Sequences

VARIABLES value, edits, results, constants, err, frames, heap

vars == <<value, edits, results, constants, err, frames, heap>>

\* What the callers of the guards leave alone: the error records, and the
\* calls in progress of the interleaved callers.
errVars == <<err>>

concVars == <<frames, heap>>

(***************************************************************************)
(* JavaScript values.                                                      *)
(***************************************************************************)

\* Property names: the keys the guards look at, the declared fields the
\* guards never look at, and one name no interface declares ("extra").
Fields ==
  {"id", "title", "starterCode", "passed", "output", "testCases", "success",
   "executionTime", "data", "testResult", "environment", "difficulty", "extra"}

\* What a property slot of an object can be: "absent" (no such key), a
\* data property holding a value of the named type ("self" is the object
\* itself, a circular reference; the three array slots are arrays with the
\* elements Elems gives), or an accessor property whose getter throws.
PlainTags == {"undefined", "null", "boolean", "number", "string", "object", "self"}

ArraySlots == {"array[]", "array[object]", "array[number,object]"}

\* The shapes of the elements of an array slot.
Elems(s) ==
  CASE s = "array[]" -> <<>>
    [] s = "array[object]" -> <<"object">>
    [] s = "array[number,object]" -> <<"number", "object">>

Absent == "absent"

PresentSlots == PlainTags \cup ArraySlots \cup {"getterThrows"}

Slots == PresentSlots \cup {Absent}

NoProps == [f \in Fields |-> Absent]

\* Kinds of value whose typeof is not a primitive's.
ObjKinds == {"object", "array", "function"}

\* A revoked Proxy (Proxy.revocable(...).revoke()) is a non-null value with
\* typeof "object" every internal method of which throws a TypeError.
Primitives ==
  {[kind |-> k, props |-> NoProps] :
     k \in {"undefined", "null", "boolean", "number", "string", "revokedProxy"}}

(***************************************************************************)
(* The operators the guards are written with.                              *)
(***************************************************************************)

\* typeof obj
Typeof(obj) ==
  CASE obj.kind \in {"object", "array", "null", "revokedProxy"} -> "object"
    [] OTHER -> obj.kind

Bool(b) == IF b THEN "true" ELSE "false"

\* 'f' in obj  ([[HasProperty]]): a TypeError when obj is a primitive, null
\* or undefined, and on a revoked Proxy.
HasProperty(obj, f) ==
  IF obj.kind \notin ObjKinds THEN "throws" ELSE Bool(obj.props[f] # Absent)

\* typeof of the value a property read yields; "self" is obj again.
TypeofSlot(obj, f) ==
  LET s == obj.props[f] IN
  CASE s = Absent -> "undefined"
    [] s \in {"null"} \cup ArraySlots -> "object"
    [] s = "self" -> Typeof(obj)
    [] OTHER -> s

\* Whether the property read obj.f throws: [[Get]] runs the getter, and
\* null, undefined and a revoked Proxy have no properties to read.
GetThrows(obj, f) ==
  \/ obj.kind \in {"null", "undefined", "revokedProxy"}
  \/ obj.props[f] = "getterThrows"

\* typeof obj.f === t
TypeofIs(obj, f, t) ==
  IF GetThrows(obj, f) THEN "throws" ELSE Bool(TypeofSlot(obj, f) = t)

\* Array.isArray(obj.f)
IsArray(obj, f) ==
  IF GetThrows(obj, f)
  THEN "throws"
  ELSE Bool(obj.props[f] \in ArraySlots
            \/ (obj.props[f] = "self" /\ obj.kind = "array"))

\* a && b && ... : the first operand that is not true decides.
AndChain(ops) ==
  LET stop == {i \in DOMAIN ops : ops[i] # "true"} IN
  IF stop = {} THEN "true"
  ELSE ops[CHOOSE i \in stop : \A j \in stop : i <= j]

\* Variant: the chain without its `obj !== null` operand.
IsNonNullObjectTypeofOnly(obj) == <<Bool(Typeof(obj) = "object")>>

\* typeof obj === 'object' && obj !== null
IsNonNullObject(obj) ==
  <<Bool(Typeof(obj) = "object"), Bool(obj.kind # "null")>>

(***************************************************************************)
(* The guards.                                                             *)
(***************************************************************************)

\* Variant: title is looked for but its type is not checked.
isExerciseIdOnly(obj) ==
  AndChain(IsNonNullObject(obj) \o
    <<HasProperty(obj, "id"),
      HasProperty(obj, "title"),
      HasProperty(obj, "starterCode"),
      TypeofIs(obj, "id", "string")>>)

\* Variant: the declared field difficulty is type-checked too.
isExerciseChecksDifficulty(obj) ==
  AndChain(IsNonNullObject(obj) \o
    <<HasProperty(obj, "id"),
      HasProperty(obj, "title"),
      HasProperty(obj, "starterCode"),
      TypeofIs(obj, "id", "string"),
      TypeofIs(obj, "title", "string"),
      TypeofIs(obj, "difficulty", "string")>>)

isExercise(obj) ==
  AndChain(IsNonNullObject(obj) \o
    <<HasProperty(obj, "id"),
      HasProperty(obj, "title"),
      HasProperty(obj, "starterCode"),
      TypeofIs(obj, "id", "string"),
      TypeofIs(obj, "title", "string")>>)

\* Variant: testCases is looked for but not tested with Array.isArray.
isTestResultNoArrayCheck(obj) ==
  AndChain(IsNonNullObject(obj) \o
    <<HasProperty(obj, "passed"),
      HasProperty(obj, "output"),
      HasProperty(obj, "testCases"),
      TypeofIs(obj, "passed", "boolean")>>)

\* Variant: a closed schema, which refuses a key it does not know.
isTestResultClosed(obj) ==
  AndChain(IsNonNullObject(obj) \o
    <<HasProperty(obj, "passed"),
      HasProperty(obj, "output"),
      HasProperty(obj, "testCases"),
      TypeofIs(obj, "passed", "boolean"),
      IsArray(obj, "testCases"),
      Bool(obj.props["extra"] = Absent)>>)

isTestResult(obj) ==
  AndChain(IsNonNullObject(obj) \o
    <<HasProperty(obj, "passed"),
      HasProperty(obj, "output"),
      HasProperty(obj, "testCases"),
      TypeofIs(obj, "passed", "boolean"),
      IsArray(obj, "testCases")>>)

\* Variant: success is looked for but its type is not checked.
isAPIResponsePresenceOnly(obj) ==
  AndChain(IsNonNullObject(obj) \o <<HasProperty(obj, "success")>>)

\* Variant: the payload data is validated as well.
isAPIResponseChecksData(obj) ==
  AndChain(IsNonNullObject(obj) \o
    <<HasProperty(obj, "success"),
      TypeofIs(obj, "success", "boolean"),
      TypeofIs(obj, "data", "object")>>)

isAPIResponse(obj) ==
  AndChain(IsNonNullObject(obj) \o
    <<HasProperty(obj, "success"),
      TypeofIs(obj, "success", "boolean")>>)

\* Variant: executionTime is type-checked, not only looked for.
isCodeExecutionResultTimed(obj) ==
  AndChain(IsNonNullObject(obj) \o
    <<HasProperty(obj, "success"),
      HasProperty(obj, "output"),
      HasProperty(obj, "executionTime"),
      TypeofIs(obj, "success", "boolean"),
      TypeofIs(obj, "executionTime", "number")>>)

\* Variant: success is looked for but its type is not checked.
isCodeExecutionResultPresenceOnly(obj) ==
  AndChain(IsNonNullObject(obj) \o
    <<HasProperty(obj, "success"),
      HasProperty(obj, "output"),
      HasProperty(obj, "executionTime")>>)

\* Variant: a guard with a module-level flag, which answers false once it
\* has answered for the value.
isCodeExecutionResultOnce(obj) ==
  IF results["isCodeExecutionResult"] # "none" THEN "false"
  ELSE AndChain(IsNonNullObject(obj) \o
         <<HasProperty(obj, "success"),
           HasProperty(obj, "output"),
           HasProperty(obj, "executionTime"),
           TypeofIs(obj, "success", "boolean")>>)

isCodeExecutionResult(obj) ==
  AndChain(IsNonNullObject(obj) \o
    <<HasProperty(obj, "success"),
      HasProperty(obj, "output"),
      HasProperty(obj, "executionTime"),
      TypeofIs(obj, "success", "boolean")>>)

(***************************************************************************)
(* The guards of the earlier version of the module (src/unnamed/part_002). *)
(***************************************************************************)

\* Variant: the earlier guard with a type check of starterCode.
isExerciseLegacyStrict(obj) ==
  AndChain(IsNonNullObject(obj) \o
    <<HasProperty(obj, "id"),
      HasProperty(obj, "title"),
      HasProperty(obj, "starterCode"),
      TypeofIs(obj, "id", "string"),
      TypeofIs(obj, "starterCode", "string")>>)

isExerciseLegacy(obj) ==
  AndChain(IsNonNullObject(obj) \o
    <<HasProperty(obj, "id"),
      HasProperty(obj, "title"),
      HasProperty(obj, "starterCode"),
      TypeofIs(obj, "id", "string")>>)

isTestResultLegacy(obj) ==
  AndChain(IsNonNullObject(obj) \o
    <<HasProperty(obj, "passed"),
      HasProperty(obj, "output"),
      HasProperty(obj, "testCases"),
      TypeofIs(obj, "passed", "boolean")>>)

isAPIResponseLegacy(obj) ==
  AndChain(IsNonNullObject(obj) \o
    <<HasProperty(obj, "success"),
      TypeofIs(obj, "success", "boolean")>>)

LegacyValidators == {"isExercise", "isTestResult", "isAPIResponse"}

\* The earlier guard of that name applied to obj.
ValidateLegacy(k, obj) ==
  CASE k = "isExercise" -> isExerciseLegacy(obj)
    [] k = "isTestResult" -> isTestResultLegacy(obj)
    [] k = "isAPIResponse" -> isAPIResponseLegacy(obj)

Validators == {"isExercise", "isTestResult", "isAPIResponse", "isCodeExecutionResult"}

\* The exported guard of that name applied to obj.
Validate(k, obj) ==
  CASE k = "isExercise" -> isExercise(obj)
    [] k = "isTestResult" -> isTestResult(obj)
    [] k = "isAPIResponse" -> isAPIResponse(obj)
    [] k = "isCodeExecutionResult" -> isCodeExecutionResult(obj)

(***************************************************************************)
(* The module-level constants.                                             *)
(***************************************************************************)

DIFFICULTY_LEVELS == <<"beginner", "intermediate", "advanced">>

THEMES == <<"light", "dark">>

CONCEPT_CATEGORIES ==
  <<"function", "operator", "keyword", "data-type", "method", "concept">>

HTTP_STATUS ==
  [OK |-> 200, CREATED |-> 201, NO_CONTENT |-> 204, BAD_REQUEST |-> 400,
   UNAUTHORIZED |-> 401, FORBIDDEN |-> 403, NOT_FOUND |-> 404, CONFLICT |-> 409,
   UNPROCESSABLE_ENTITY |-> 422, INTERNAL_SERVER_ERROR |-> 500,
   SERVICE_UNAVAILABLE |-> 503]

API_CODES ==
  [SUCCESS |-> "SUCCESS", VALIDATION_ERROR |-> "VALIDATION_ERROR",
   EXECUTION_ERROR |-> "EXECUTION_ERROR", AUTH_ERROR |-> "AUTH_ERROR",
   NOT_FOUND |-> "NOT_FOUND", INTERNAL_ERROR |-> "INTERNAL_ERROR"]

EXECUTION_LIMITS ==
  [TIMEOUT_MS |-> 10000, MEMORY_LIMIT_MB |-> 128, MAX_OUTPUT_LENGTH |-> 10000,
   MAX_CODE_LENGTH |-> 50000]

\* The exported constant objects as the module creates them.  `as const`
\* is a compile-time annotation: at run time they are ordinary objects.
ModuleConstants ==
  [DIFFICULTY_LEVELS |-> DIFFICULTY_LEVELS, THEMES |-> THEMES,
   CONCEPT_CATEGORIES |-> CONCEPT_CATEGORIES, HTTP_STATUS |-> HTTP_STATUS,
   API_CODES |-> API_CODES, EXECUTION_LIMITS |-> EXECUTION_LIMITS]

(***************************************************************************)
(* The caller: writes a value, changes it, then calls guards on it.        *)
(***************************************************************************)

\* Number of property writes and deletes the caller makes on a value
\* before handing it to the guards.
MaxEdits == 1

Obj(kind, props) == [kind |-> kind, props |-> props]

EmptyObject == Obj("object", NoProps)

EmptyArray == Obj("array", NoProps)

EmptyFunction == Obj("function", NoProps)

MinimalExercise ==
  Obj("object", [NoProps EXCEPT !["id"] = "string",
                                !["title"] = "string",
                                !["starterCode"] = "string"])

MinimalTestResult ==
  Obj("object", [NoProps EXCEPT !["passed"] = "boolean",
                                !["output"] = "string",
                                !["testCases"] = "array[]"])

MinimalAPIResponse == Obj("object", [NoProps EXCEPT !["success"] = "boolean"])

MinimalCodeExecutionResult ==
  Obj("object", [NoProps EXCEPT !["success"] = "boolean",
                                !["output"] = "string",
                                !["executionTime"] = "number"])

Literals ==
  {EmptyObject, EmptyArray, EmptyFunction, MinimalExercise, MinimalTestResult,
   MinimalAPIResponse, MinimalCodeExecutionResult}

NoCalls == [k \in Validators |-> "none"]

WithProp(obj, f, s) == [obj EXCEPT !.props[f] = s]

\* No error record built, no interleaved caller.
NoError == [ctor |-> "none"]

Idle == <<>>

Init ==
  /\ value \in Primitives \cup Literals
  /\ edits = 0
  /\ results = NoCalls
  /\ constants = ModuleConstants
  /\ err = NoError
  /\ frames = Idle
  /\ heap = Idle

\* obj.f = <value>, or Object.defineProperty(obj, f, {get() { throw ... }})
SetProp(f, s) ==
  /\ edits < MaxEdits
  /\ results = NoCalls
  /\ value.kind \in ObjKinds
  /\ value.props[f] # s
  /\ value' = WithProp(value, f, s)
  /\ edits' = edits + 1
  /\ UNCHANGED <<results, constants, errVars, concVars>>

\* delete obj.f
DeleteProp(f) ==
  /\ edits < MaxEdits
  /\ results = NoCalls
  /\ value.kind \in ObjKinds
  /\ value.props[f] # Absent
  /\ value' = WithProp(value, f, Absent)
  /\ edits' = edits + 1
  /\ UNCHANGED <<results, constants, errVars, concVars>>

\* Variant: a guard that fills in a default for a missing difficulty
\* before it answers.
CallIsExerciseDefaulting ==
  /\ results' = [results EXCEPT !["isExercise"] = isExercise(value)]
  /\ value' = IF value.kind \in ObjKinds /\ value.props["difficulty"] = Absent
              THEN WithProp(value, "difficulty", "string")
              ELSE value
  /\ UNCHANGED <<edits, constants, errVars, concVars>>

CallIsExercise ==
  /\ results' = [results EXCEPT !["isExercise"] = isExercise(value)]
  /\ UNCHANGED <<value, edits, constants, errVars, concVars>>

CallIsTestResult ==
  /\ results' = [results EXCEPT !["isTestResult"] = isTestResult(value)]
  /\ UNCHANGED <<value, edits, constants, errVars, concVars>>

CallIsAPIResponse ==
  /\ results' = [results EXCEPT !["isAPIResponse"] = isAPIResponse(value)]
  /\ UNCHANGED <<value, edits, constants, errVars, concVars>>

CallIsCodeExecutionResult ==
  /\ results' = [results EXCEPT !["isCodeExecutionResult"] = isCodeExecutionResult(value)]
  /\ UNCHANGED <<value, edits, constants, errVars, concVars>>

Next ==
  \/ \E f \in Fields, s \in PresentSlots : SetProp(f, s)
  \/ \E f \in Fields : DeleteProp(f)
  \/ CallIsExercise
  \/ CallIsTestResult
  \/ CallIsAPIResponse
  \/ CallIsCodeExecutionResult

Spec == Init /\ [][Next]_vars

TypeOK ==
  /\ value.kind \in ObjKinds \cup {p.kind : p \in Primitives}
  /\ value.props \in [Fields -> Slots]
  /\ edits \in 0..MaxEdits
  /\ results \in [Validators -> {"none", "true", "false", "throws"}]

(***************************************************************************)
(* Interleaved callers.  Each call is an activation of a guard with its    *)
(* own argument reference and its own position in the && chain; the        *)
(* objects the arguments refer to are shared.  An activation evaluates one *)
(* operand per step, so that steps of different calls interleave freely    *)
(* (more freely than a run-to-completion JavaScript engine lets them).     *)
(***************************************************************************)

\* Number of callers that call guards at the same time.
MaxCallers == 2

Callers == 1..MaxCallers

\* The operands of the && chain of each guard, in source order.
Operands(k, obj) ==
  CASE k = "isExercise" ->
         <<Bool(Typeof(obj) = "object"), Bool(obj.kind # "null"),
           HasProperty(obj, "id"), HasProperty(obj, "title"),
           HasProperty(obj, "starterCode"),
           TypeofIs(obj, "id", "string"), TypeofIs(obj, "title", "string")>>
    [] k = "isTestResult" ->
         <<Bool(Typeof(obj) = "object"), Bool(obj.kind # "null"),
           HasProperty(obj, "passed"), HasProperty(obj, "output"),
           HasProperty(obj, "testCases"),
           TypeofIs(obj, "passed", "boolean"), IsArray(obj, "testCases")>>
    [] k = "isAPIResponse" ->
         <<Bool(Typeof(obj) = "object"), Bool(obj.kind # "null"),
           HasProperty(obj, "success"), TypeofIs(obj, "success", "boolean")>>
    [] k = "isCodeExecutionResult" ->
         <<Bool(Typeof(obj) = "object"), Bool(obj.kind # "null"),
           HasProperty(obj, "success"), HasProperty(obj, "output"),
           HasProperty(obj, "executionTime"),
           TypeofIs(obj, "success", "boolean")>>

\* The pairs of objects the callers share.
SharedHeaps ==
  {<<MinimalExercise, MinimalCodeExecutionResult>>,
   <<WithProp(MinimalExercise, "title", "number"), MinimalTestResult>>,
   <<WithProp(MinimalTestResult, "testCases", "getterThrows"), MinimalAPIResponse>>,
   <<EmptyArray, WithProp(MinimalCodeExecutionResult, "success", "string")>>}

IdleFrame == [fn |-> "none", arg |-> 1, pc |-> 0, out |-> "none"]

Running(c) == frames[c].fn # "none" /\ frames[c].out = "none"

InitConc ==
  /\ value = EmptyObject
  /\ edits = 0
  /\ results = NoCalls
  /\ constants = ModuleConstants
  /\ err = NoError
  /\ heap \in SharedHeaps
  /\ frames = [c \in Callers |-> IdleFrame]

\* Caller c calls guard k on the shared object a.
Invoke(c, k, a) ==
  /\ frames[c].fn = "none"
  /\ frames' = [frames EXCEPT ![c] = [fn |-> k, arg |-> a, pc |-> 1, out |-> "none"]]
  /\ UNCHANGED <<value, edits, results, constants, errVars, heap>>

\* Variant: the position in the chain is kept in one module-level cursor,
\* which every activation advances.
ResumeShared(c) ==
  1 + CHOOSE n \in {frames[d].pc : d \in Callers} :
        \A d \in Callers : frames[d].pc <= n

\* The operand the activation of c evaluates next: the one after the
\* operand it has just found true.
Resume(c) == frames[c].pc + 1

\* The activation of c evaluates its current operand on its argument.
Step(c) ==
  /\ Running(c)
  /\ LET f == frames[c]
         ops == Operands(f.fn, heap[f.arg])
     IN frames' =
          IF f.pc \in DOMAIN ops /\ ops[f.pc] # "true"
          THEN [frames EXCEPT ![c].out = ops[f.pc]]
          ELSE IF Resume(c) > Len(ops)
               THEN [frames EXCEPT ![c].out = "true"]
               ELSE [frames EXCEPT ![c].pc = Resume(c)]
  /\ UNCHANGED <<value, edits, results, constants, errVars, heap>>

\* Caller c takes the result; it may call again.
Return(c) ==
  /\ frames[c].out # "none"
  /\ frames' = [frames EXCEPT ![c] = IdleFrame]
  /\ UNCHANGED <<value, edits, results, constants, errVars, heap>>

CallerNext(c) ==
  \/ \E k \in Validators, a \in DOMAIN heap : Invoke(c, k, a)
  \/ Step(c)
  \/ Return(c)

NextConc ==
  \/ \E c \in Callers, k \in Validators, a \in DOMAIN heap : Invoke(c, k, a)
  \/ \E c \in Callers : Step(c)
  \/ \E c \in Callers : Return(c)

SpecConc == InitConc /\ [][NextConc]_vars

(***************************************************************************)
(* The error classes.  err holds the last `new C(...args)` evaluated: the  *)
(* class, the argument list as written, and the object it built.  An       *)
(* argument, and a property that may be undefined, is Undefined or         *)
(* Some(v).                                                                *)
(***************************************************************************)

Undefined == <<>>

Some(v) == <<v>>

\* The i-th argument, undefined when the call passes fewer.
Arg(args, i) == IF i <= Len(args) THEN args[i] ELSE Undefined

\* constructor(message, statusCode = 500, code?, details?)
\* (Error.captureStackTrace only records the stack property.)
AppError(args) ==
  [name |-> "AppError",
   message |-> Arg(args, 1),
   statusCode |-> IF Arg(args, 2) = Undefined THEN 500 ELSE args[2][1],
   code |-> Arg(args, 3),
   details |-> Arg(args, 4)]

\* constructor(message, field?, validationErrors?)
ValidationError(args) ==
  LET base == AppError(<<Arg(args, 1), Some(400), Some("VALIDATION_ERROR")>>) IN
  [name |-> "ValidationError", message |-> base.message,
   statusCode |-> base.statusCode, code |-> base.code, details |-> base.details,
   field |-> Arg(args, 2), validationErrors |-> Arg(args, 3)]

\* Variant: the subclass forgets to set its name after super(...).
ExecutionErrorUnnamed(args) ==
  LET base == AppError(<<Arg(args, 1), Some(500), Some("EXECUTION_ERROR")>>) IN
  [name |-> base.name, message |-> base.message,
   statusCode |-> base.statusCode, code |-> base.code, details |-> base.details,
   originalError |-> Arg(args, 2), executionDetails |-> Arg(args, 3)]

\* constructor(message, originalError?, executionDetails?)
ExecutionError(args) ==
  LET base == AppError(<<Arg(args, 1), Some(500), Some("EXECUTION_ERROR")>>) IN
  [name |-> "ExecutionError", message |-> base.message,
   statusCode |-> base.statusCode, code |-> base.code, details |-> base.details,
   originalError |-> Arg(args, 2), executionDetails |-> Arg(args, 3)]

\* message: string = 'Authentication required'
AuthMessage(args) ==
  IF Arg(args, 1) = Undefined THEN Some("Authentication required") ELSE args[1]

\* Variant: the status of a refused, not of an unauthenticated, request.
AuthErrorForbidden(args) ==
  LET base == AppError(<<AuthMessage(args), Some(403), Some("AUTH_ERROR")>>) IN
  [name |-> "AuthError", message |-> base.message,
   statusCode |-> base.statusCode, code |-> base.code, details |-> base.details]

\* constructor(message = 'Authentication required')
AuthError(args) ==
  LET base == AppError(<<AuthMessage(args), Some(401), Some("AUTH_ERROR")>>) IN
  [name |-> "AuthError", message |-> base.message,
   statusCode |-> base.statusCode, code |-> base.code, details |-> base.details]

\* id ? `${resource} with id '${id}' not found` : `${resource} not found`
\* (the parts of the template literal; undefined and '' are falsy).
NotFoundMessage(args) ==
  IF Arg(args, 2) \in {Undefined, Some("")}
  THEN Some(<<args[1][1], " not found">>)
  ELSE Some(<<args[1][1], " with id '", args[2][1], "' not found">>)

\* Variant: a machine code of its own making.
NotFoundErrorOwnCode(args) ==
  LET base == AppError(<<NotFoundMessage(args), Some(404), Some("RESOURCE_NOT_FOUND")>>) IN
  [name |-> "NotFoundError", message |-> base.message,
   statusCode |-> base.statusCode, code |-> base.code, details |-> base.details]

\* constructor(resource, id?)
NotFoundError(args) ==
  LET base == AppError(<<NotFoundMessage(args), Some(404), Some("NOT_FOUND")>>) IN
  [name |-> "NotFoundError", message |-> base.message,
   statusCode |-> base.statusCode, code |-> base.code, details |-> base.details]

\* Argument values the services construct errors with.
Messages == {Some(""), Some("boom"), Some("Invalid input")}

StatusArgs == {Undefined} \cup {Some(n) : n \in {200, 400, 404, 418, 500}}

CodeArgs == {Undefined, Some("INTERNAL_ERROR"), Some("E_CUSTOM")}

OptionalArgs == {Undefined, Some("given")}

FieldArgs == {Undefined, Some(""), Some("email")}

Resources == {Some("Exercise"), Some("User")}

IdArgs == {Undefined, Some(""), Some("42")}

\* All argument lists that pass a prefix of the parameters.
AppErrorArgs ==
  {<<m>> : m \in Messages}
    \cup {<<m, s>> : m \in Messages, s \in StatusArgs}
    \cup {<<m, s, c>> : m \in Messages, s \in StatusArgs, c \in CodeArgs}
    \cup {<<m, s, c, d>> : m \in Messages, s \in StatusArgs, c \in CodeArgs,
                           d \in OptionalArgs}

SubclassArgs ==
  {<<m>> : m \in Messages}
    \cup {<<m, f>> : m \in Messages, f \in FieldArgs}
    \cup {<<m, f, d>> : m \in Messages, f \in FieldArgs, d \in OptionalArgs}

AuthErrorArgs == {<<>>} \cup {<<m>> : m \in Messages \cup {Undefined}}

NotFoundErrorArgs ==
  {<<r>> : r \in Resources} \cup {<<r, i>> : r \in Resources, i \in IdArgs}

InitErrors ==
  /\ value = EmptyObject
  /\ edits = 0
  /\ results = NoCalls
  /\ constants = ModuleConstants
  /\ err = NoError
  /\ frames = Idle
  /\ heap = Idle

Built(ctor, args, obj) ==
  /\ err' = [ctor |-> ctor, args |-> args, obj |-> obj]
  /\ UNCHANGED <<value, edits, results, constants, concVars>>

NewAppError == \E args \in AppErrorArgs : Built("AppError", args, AppError(args))

NewValidationError ==
  \E args \in SubclassArgs : Built("ValidationError", args, ValidationError(args))

NewExecutionError ==
  \E args \in SubclassArgs : Built("ExecutionError", args, ExecutionError(args))

NewAuthError == \E args \in AuthErrorArgs : Built("AuthError", args, AuthError(args))

NewNotFoundError ==
  \E args \in NotFoundErrorArgs : Built("NotFoundError", args, NotFoundError(args))

NextErrors ==
  \/ NewAppError
  \/ NewValidationError
  \/ NewExecutionError
  \/ NewAuthError
  \/ NewNotFoundError

SpecErrors == InitErrors /\ [][NextErrors]_vars

(***************************************************************************)
(* The schemas as the specification states them.                           *)
(***************************************************************************)

\* Keys that must be present.
RequiredKeys(k) ==
  CASE k = "isExercise" -> {"id", "title", "starterCode"}
    [] k = "isTestResult" -> {"passed", "output", "testCases"}
    [] k = "isAPIResponse" -> {"success"}
    [] k = "isCodeExecutionResult" -> {"success", "output", "executionTime"}

\* Keys whose value must be a string, a boolean, a sequence.
StringKeys(k) == IF k = "isExercise" THEN {"id", "title"} ELSE {}

BooleanKeys(k) ==
  CASE k = "isExercise" -> {}
    [] k = "isTestResult" -> {"passed"}
    [] OTHER -> {"success"}

SequenceKeys(k) == IF k = "isTestResult" THEN {"testCases"} ELSE {}

TypedKeys(k) == StringKeys(k) \cup BooleanKeys(k) \cup SequenceKeys(k)

\* Required keys that are only looked for.
PresenceOnlyKeys(k) == RequiredKeys(k) \ TypedKeys(k)

\* Fields the interface declares and the guard never looks at (those of
\* them that Fields has).
DeclaredUncheckedKeys(k) ==
  CASE k = "isExercise" -> {"difficulty"}
    [] k = "isTestResult" -> {"executionTime"}
    [] k = "isAPIResponse" -> {"data"}
    [] k = "isCodeExecutionResult" -> {"testResult", "environment"}

\* A non-null object: an object, an array or an exotic object.
IsObjectValue(v) == v.kind \in {"object", "array", "revokedProxy"}

HoldsSequence(v, f) ==
  v.props[f] \in ArraySlots \/ (v.props[f] = "self" /\ v.kind = "array")

\* The key holds a value of the type the schema asks for.
HoldsExpected(k, v, f) ==
  /\ f \in StringKeys(k) => v.props[f] = "string"
  /\ f \in BooleanKeys(k) => v.props[f] = "boolean"
  /\ f \in SequenceKeys(k) => HoldsSequence(v, f)

AllRequiredPresent(k, v) == \A f \in RequiredKeys(k) : v.props[f] # Absent

Conforms(k, v) ==
  /\ IsObjectValue(v)
  /\ AllRequiredPresent(k, v)
  /\ \A f \in TypedKeys(k) : HoldsExpected(k, v, f)

Called(k) == results[k] # "none"

\* The keys on which two values differ.
Changed(v, w) == {f \in Fields : v.props[f] # w.props[f]}

(***************************************************************************)
(* Claims.                                                                 *)
(***************************************************************************)

\* C1: a guard returns true exactly when the value is a non-null object
\* that has every required key and whose type-checked keys hold values of
\* their types.
C1_TrueIffConforms ==
  \A k \in Validators : Called(k) => (results[k] = "true" <=> Conforms(k, value))

\* An array that carries success: true is accepted as an API response while
\* the exercise guard has refused it.
C1_Witness ==
  /\ value.kind = "array"
  /\ results["isAPIResponse"] = "true"
  /\ results["isExercise"] = "false"

\* C2: no guard ever raises: every call yields a boolean (stated as the
\* claim states it; the code raises on a throwing getter and on a revoked
\* Proxy).
C2_NeverRaises == \A k \in Validators : results[k] # "throws"

\* C3: null, undefined, numbers, strings and booleans, and arrays that lack
\* a required key, are refused with false by every guard.
C3_NonObjectsRejected ==
  \A k \in Validators :
    /\ Called(k)
    /\ \/ value.kind \in {"null", "undefined", "number", "string", "boolean"}
       \/ value.kind = "array" /\ ~AllRequiredPresent(k, value)
    => results[k] = "false"

\* An array that carries one of the keys of an exercise, refused.
C3_Witness ==
  /\ value.kind = "array"
  /\ value.props["id"] = "string"
  /\ results["isExercise"] = "false"

\* C4: an object with every required key present and exactly one
\* type-checked key holding a value of the wrong type is refused with false.
C4_OneWrongTypeRejected ==
  \A k \in Validators :
    /\ Called(k)
    /\ value.kind \in {"object", "array"}
    /\ AllRequiredPresent(k, value)
    /\ \E f \in TypedKeys(k) :
         /\ value.props[f] # "getterThrows"
         /\ ~HoldsExpected(k, value, f)
         /\ \A g \in TypedKeys(k) \ {f} : HoldsExpected(k, value, g)
    => results[k] = "false"

\* passed: "yes" in an otherwise minimal test result.
C4_Witness ==
  /\ value = WithProp(MinimalTestResult, "passed", "string")
  /\ results["isTestResult"] = "false"

\* The type the interface declares for a required key.
DeclaredSlot(k, f) ==
  CASE f \in StringKeys(k) -> "string"
    [] f \in BooleanKeys(k) -> "boolean"
    [] f \in SequenceKeys(k) -> "array[]"
    [] f = "executionTime" -> "number"
    [] OTHER -> "string"

\* An object with exactly the required keys, each of its declared type.
IsMinimal(k, v) ==
  /\ v.kind = "object"
  /\ \A f \in Fields :
       v.props[f] = (IF f \in RequiredKeys(k) THEN DeclaredSlot(k, f) ELSE Absent)

C5_MinimalAccepted ==
  \A k \in Validators : Called(k) /\ IsMinimal(k, value) => results[k] = "true"

\* v and w differ in one declared-but-unchecked key of guard k, which one
\* of them lacks.
OmitsDeclared(k, v, w) ==
  LET ch == Changed(v, w) IN
  /\ Cardinality(ch) = 1
  /\ ch \subseteq DeclaredUncheckedKeys(k)
  /\ \A f \in ch : v.props[f] = Absent \/ w.props[f] = Absent

\* C5: a minimal object is accepted, and an object with a declared but
\* unchecked key gets the result the object without that key gets.
C5_MinimalAndOmission ==
  /\ []C5_MinimalAccepted
  /\ [][value' # value =>
          \A k \in Validators :
            OmitsDeclared(k, value, value') => Validate(k, value') = Validate(k, value)]_vars

\* A minimal exercise with a difficulty, accepted like the minimal one.
C5_Witness ==
  /\ value = WithProp(MinimalExercise, "difficulty", "string")
  /\ results["isExercise"] = "true"

\* The keys guard k looks at.
CheckedKeys(k) == RequiredKeys(k)

\* w is v with one more key, which guard k does not look at.
AddsUnchecked(k, v, w) ==
  LET ch == Changed(v, w) IN
  /\ Cardinality(ch) = 1
  /\ ch \cap CheckedKeys(k) = {}
  /\ \A f \in ch : v.props[f] = Absent

\* C6: adding a key outside the checked subset, with any value, to an
\* accepted object gives an accepted object, and to a refused object a
\* refused one.
C6_OpenSchema ==
  [][value' # value =>
       \A k \in Validators :
         AddsUnchecked(k, value, value')
         => /\ Validate(k, value) = "true" => Validate(k, value') = "true"
            /\ Validate(k, value) = "false" => Validate(k, value') = "false"]_vars

\* A minimal test result with an unknown key whose getter throws, accepted.
C6_Witness ==
  /\ value = WithProp(MinimalTestResult, "extra", "getterThrows")
  /\ results["isTestResult"] = "true"

\* C7: whatever a presence-only key holds (starterCode; output of a test
\* result; output and executionTime of an execution result), an accepted
\* object stays accepted as long as the key is present.
C7_PresenceOnly ==
  [][value' # value =>
       \A k \in Validators :
         /\ Changed(value, value') \subseteq PresenceOnlyKeys(k)
         /\ AllRequiredPresent(k, value')
         /\ Validate(k, value) = "true"
         => Validate(k, value') = "true"]_vars

\* An execution result whose executionTime holds undefined, accepted.
C7_Witness ==
  /\ value = WithProp(MinimalCodeExecutionResult, "executionTime", "undefined")
  /\ results["isCodeExecutionResult"] = "true"

\* C8: with passed a boolean and output present, isTestResult accepts a
\* testCases sequence of any element shape and refuses a missing testCases
\* and a testCases that is not a sequence.
C8_TestCasesSequence ==
  /\ Called("isTestResult")
  /\ value.kind \in {"object", "array"}
  /\ value.props["passed"] = "boolean"
  /\ value.props["output"] # Absent
  /\ value.props["testCases"] # "getterThrows"
  => results["isTestResult"] = Bool(HoldsSequence(value, "testCases"))

\* A testCases of a number and an object, accepted.
C8_Witness ==
  /\ value.props["testCases"] \in ArraySlots
  /\ Elems(value.props["testCases"]) = <<"number", "object">>
  /\ results["isTestResult"] = "true"

\* C9: two objects that agree on the keys a guard checks get the same
\* verdict: data does not count for isAPIResponse, nor testResult or
\* environment for isCodeExecutionResult.
C9_ShallowOnly ==
  [][value' # value =>
       \A k \in Validators :
         Changed(value, value') \cap CheckedKeys(k) = {}
         => Validate(k, value') = Validate(k, value)]_vars

\* An API response whose data cannot even be read, accepted.
C9_Witness ==
  /\ value = WithProp(MinimalAPIResponse, "data", "getterThrows")
  /\ results["isAPIResponse"] = "true"

GuardCalled == \E k \in Validators : ~Called(k) /\ results'[k] # "none"

C12_ConcurrentCallsSafe ==
  /\ \A c \in Callers :
       frames[c].out # "none"
       => frames[c].out = Validate(frames[c].fn, heap[frames[c].arg])
  /\ \A c \in Callers : ENABLED CallerNext(c)

\* Two calls of isExercise on the same object: one has finished with
\* false while the other is in the middle of its chain.
C12_Witness ==
  /\ heap[1].props["title"] = "number"
  /\ frames[1].fn = "isExercise" /\ frames[1].arg = 1 /\ frames[1].out = "false"
  /\ frames[2].fn = "isExercise" /\ frames[2].arg = 1 /\ frames[2].pc = 4
  /\ frames[2].out = "none"

\* C13: every AuthError has statusCode 401, whatever its message (also
\* the default one), and every NotFoundError has statusCode 404, whatever
\* its resource and id.
C13_FixedStatusCodes ==
  /\ err.ctor = "AuthError" => err.obj.statusCode = 401
  /\ err.ctor = "NotFoundError" => err.obj.statusCode = 404

\* new AuthError() with its default message.
C13_Witness ==
  /\ err.ctor = "AuthError"
  /\ err.args = <<>>
  /\ err.obj.message = Some("Authentication required")

\* The classes AppError and its four subclasses.
ErrorClasses ==
  {"AppError", "ValidationError", "ExecutionError", "AuthError", "NotFoundError"}

\* C14 as stated: an AppError built without a status code has statusCode
\* 500 and no machine code.
C14_NoStatusNoCode ==
  err.ctor = "AppError" /\ Arg(err.args, 2) = Undefined
  => err.obj.statusCode = 500 /\ err.obj.code = Undefined

\* C14, amended: every error record carries a numeric status code and the
\* name of its class; an AppError built without a status code has
\* statusCode 500, and one built without a code argument has no code; a
\* ValidationError has statusCode 400, code 'VALIDATION_ERROR' and the
\* field it was given; an ExecutionError has statusCode 500 and code
\* 'EXECUTION_ERROR'.
C14_StatusByKind ==
  err.ctor \in ErrorClasses =>
    /\ err.obj.statusCode \in Nat
    /\ err.obj.name = err.ctor
    /\ err.ctor = "AppError" /\ Arg(err.args, 2) = Undefined
       => err.obj.statusCode = 500
    /\ err.ctor = "AppError" /\ Arg(err.args, 3) = Undefined
       => err.obj.code = Undefined
    /\ err.ctor = "ValidationError"
       => /\ err.obj.statusCode = 400
          /\ err.obj.code = Some("VALIDATION_ERROR")
          /\ err.obj.field = Arg(err.args, 2)
    /\ err.ctor = "ExecutionError"
       => err.obj.statusCode = 500 /\ err.obj.code = Some("EXECUTION_ERROR")

\* new ExecutionError('boom', cause, details)
C14_Witness ==
  /\ err.ctor = "ExecutionError"
  /\ err.args = <<Some("boom"), Some("email"), Some("given")>>
  /\ err.obj.name = "ExecutionError"

\* The values of a constant object.
ValuesOf(object) == {object[key] : key \in DOMAIN object}

\* C16: the code of every ValidationError, ExecutionError, AuthError and
\* NotFoundError is a value of API_CODES and its statusCode a value of
\* HTTP_STATUS.
C16_WithinVocabulary ==
  err.ctor \in ErrorClasses \ {"AppError"} =>
    /\ err.obj.code \in {Some(code) : code \in ValuesOf(constants.API_CODES)}
    /\ err.obj.statusCode \in ValuesOf(constants.HTTP_STATUS)

\* new NotFoundError('Exercise', '42')
C16_Witness ==
  /\ err.ctor = "NotFoundError"
  /\ err.obj.message = Some(<<"Exercise", " with id '", "42", "' not found">>)
  /\ err.obj.code = Some("NOT_FOUND")

\* C15: whatever isCodeExecutionResult accepts, isAPIResponse accepts.
C15_ExecutionResultIsResponse ==
  Called("isCodeExecutionResult") /\ Called("isAPIResponse")
  => (results["isCodeExecutionResult"] = "true" => results["isAPIResponse"] = "true")

\* An execution result with a payload, accepted by both guards.
C15_Witness ==
  /\ value = WithProp(MinimalCodeExecutionResult, "data", "object")
  /\ results["isCodeExecutionResult"] = "true"
  /\ results["isAPIResponse"] = "true"

\* C17: what a guard of index.ts accepts, the earlier guard of the same
\* name accepted; the two isAPIResponse agree on every value; and the two
\* versions of a guard disagree only on an object whose title is not a
\* string (isExercise) or whose testCases is not a sequence (isTestResult).
C17_RefinesLegacy ==
  \A k \in LegacyValidators :
    Called(k) =>
      /\ results[k] = "true" => ValidateLegacy(k, value) = "true"
      /\ k = "isAPIResponse" => results[k] = ValidateLegacy(k, value)
      /\ results[k] # ValidateLegacy(k, value)
         => /\ IsObjectValue(value)
            /\ k = "isExercise" => value.props["title"] # "string"
            /\ k = "isTestResult" => ~HoldsSequence(value, "testCases")

\* An exercise with a null title: refused now, accepted before.
C17_Witness ==
  /\ value = WithProp(MinimalExercise, "title", "null")
  /\ results["isExercise"] = "false"
  /\ isExerciseLegacy(value) = "true"

====
